---- MODULE Spec2Model ----
(***************************************************************************)
(* A/B test analysis: StatsUtils (src/src/stats_utils.py) driven by        *)
(* ABAnalyzer (src/src/ab_analyzer.py), and ABTestAnalyzer (src/main.py).  *)
(*                                                                         *)
(* Numbers.  A float is modelled by its exact value:                       *)
(*   [k |-> "nan"], [k |-> "inf", sign |-> 1 or -1], or                    *)
(*   [k |-> "fin", c |-> <<n, d>>, m |-> margin] : the rational n/d (in    *)
(*   lowest terms, d > 0) plus an irrational part m kept symbolically      *)
(*   (NoMargin when there is none).                                        *)
(* The t statistic is sign * sqrt(sq) with sq a rational; the p-value of a *)
(* finite t is the two-sided Student-t tail of (sq, df) and is kept as     *)
(* that pair; it is compared with alpha through tabulated critical values. *)
(***************************************************************************)
EXTENDS Integers, Sequences, FiniteSets, TLC

VARIABLES data, ret, raised, report, plots, first, df, result, printed

vars == <<data, ret, raised, report, plots, first, df, result, printed>>
\* the state of src/main.py: ABTestAnalyzer.df, the value returned by the last
\* perform_statistical_analysis, and the lines report_results printed
mainvars == <<df, result, printed>>

(***************************** bounds ***************************************)
MaxRecords == 4
MaxUlp == 2
MaxDays == 2

(***************************** the table ************************************)
NullGroup == "NaN"
Groups == {"ad", "psa"}
GroupOrder == <<"ad", "psa">>
GroupValues == Groups \cup {NullGroup}
Record == [group : GroupValues, converted : BOOLEAN]

RECURSIVE SeqsUpTo(_, _)
SeqsUpTo(S, n) ==
    IF n = 0 THEN {<<>>}
    ELSE LET shorter == SeqsUpTo(S, n - 1)
         IN  shorter \cup {Append(s, r) : s \in {q \in shorter : Len(q) = n - 1}, r \in S}

Tables == SeqsUpTo(Record, MaxRecords)
IsRecordSet(d) == \A i \in 1..Len(d) : d[i].group # NullGroup
RecordSets == {d \in Tables : IsRecordSet(d)}

(***************************** rationals ************************************)
Abs(x) == IF x < 0 THEN -x ELSE x

RECURSIVE GCD(_, _)
GCD(a, b) == IF b = 0 THEN a ELSE GCD(b, a % b)

Frac(n, d) ==
    LET g == GCD(Abs(n), Abs(d))
        s == IF d < 0 THEN -1 ELSE 1
    IN  <<(s * n) \div g, (s * d) \div g>>

FAdd(x, y) == Frac(x[1] * y[2] + y[1] * x[2], x[2] * y[2])
FSub(x, y) == Frac(x[1] * y[2] - y[1] * x[2], x[2] * y[2])
FMul(x, y) ==
    LET g1 == GCD(Abs(x[1]), y[2])
        g2 == GCD(Abs(y[1]), x[2])
    IN  Frac((x[1] \div g1) * (y[1] \div g2), (x[2] \div g2) * (y[2] \div g1))
FDiv(x, y) == FMul(x, IF y[1] < 0 THEN <<-y[2], -y[1]>> ELSE <<y[2], y[1]>>)
FSign(x) == IF x[1] > 0 THEN 1 ELSE IF x[1] < 0 THEN -1 ELSE 0
FZero == <<0, 1>>
FOne == <<1, 1>>
FLeq(x, y) == x[1] * y[2] <= y[1] * x[2]

(***************************** floats ***************************************)
NaN == [k |-> "nan"]
Inf(s) == [k |-> "inf", sign |-> s]
NoMargin == [k |-> "none"]
Fin(q) == [k |-> "fin", c |-> q, m |-> NoMargin]
IsNaN(x) == x.k = "nan"

\* int / int as numpy divides: 0/0 is nan, x/0 is +-inf
IntDiv(n, d) ==
    IF d = 0 THEN (IF n = 0 THEN NaN ELSE Inf(IF n > 0 THEN 1 ELSE -1))
    ELSE Fin(Frac(n, d))

(***************************** pandas ***************************************)
\* a group for every label, observed or not
GroupKeys_unobserved(d) == GroupOrder

\* data.groupby(group_col): one group per distinct non-null key, keys sorted
GroupKeys(d) == SelectSeq(GroupOrder, LAMBDA g : \E i \in 1..Len(d) : d[i].group = g)

\* data[data[group_col] == g][outcome_col]
Select(d, g) ==
    LET rows == SelectSeq(d, LAMBDA r : r.group = g)
    IN  [i \in 1..Len(rows) |-> rows[i].converted]

RECURSIVE Sum(_)
Sum(xs) == IF xs = <<>> THEN 0 ELSE (IF Head(xs) THEN 1 ELSE 0) + Sum(Tail(xs))
Count(xs) == Len(xs)
Mean(xs) == IntDiv(Sum(xs), Count(xs))

(***************************** scipy.stats **********************************)
\* A confidence level is a double in (0, 1): v per cent, or 1 - v * 2^-53.
Pct(v) == [kind |-> "pct", v |-> v]
BelowOne(v) == [kind |-> "ulp", v |-> v]
DefaultConfidencePct == 95
DefaultConfidence == Pct(DefaultConfidencePct)
Confidences == {DefaultConfidence} \cup {BelowOne(u) : u \in 1..MaxUlp}

\* k/2 rounded to an integer, ties to the even one
RoundHalfEven(u) ==
    IF u % 2 = 0 THEN u \div 2
    ELSE IF ((u - 1) \div 2) % 2 = 0 THEN (u - 1) \div 2 ELSE (u + 1) \div 2

\* (1 + confidence) / 2 in double arithmetic.  1 + (1 - v*2^-53) lies in
\* [1, 2], where doubles are 2^-52 apart, so the sum is rounded to
\* 2 - RoundHalfEven(v) * 2^-52; halving is exact.
UpperTail(confidence) ==
    IF confidence.kind = "pct" THEN [kind |-> "permille", v |-> (1000 + 10 * confidence.v) \div 2]
    ELSE IF RoundHalfEven(confidence.v) = 0 THEN [kind |-> "one"]
    ELSE BelowOne(RoundHalfEven(confidence.v))

\* stats.norm.ppf(q) for q in (0.5, 1]: the quantile is kept as its argument;
\* ppf(1.0) is +inf
norm_ppf(q) == IF q.kind = "one" THEN Inf(1) ELSE [k |-> "z", q |-> q]

\* squared two-sided critical values of Student's t, times 1000, rounded
\* down, for 1..9 degrees of freedom
DefaultAlpha == 50
Alphas == {DefaultAlpha, 10}
CritSqMilli(alpha) ==
    IF alpha = 50
    THEN <<161447, 18512, 10127, 7708, 6607, 5987, 5591, 5317, 5117>>
    ELSE <<4052180, 98502, 34116, 21197, 16258, 13745, 12246, 11258, 10561>>

Floor(q) == q[1] \div q[2]
Ceil(q) == IF q[1] % q[2] = 0 THEN q[1] \div q[2] ELSE (q[1] \div q[2]) + 1
Clamp(n) == IF n < 1 THEN 1 ELSE IF n > 9 THEN 9 ELSE n

\* sq > c/1000, without forming c * sq[2]
ExceedsMilli(sq, c) ==
    LET w == (1000 * sq[1]) \div sq[2]
    IN  w > c \/ (w = c /\ (1000 * sq[1]) % sq[2] > 0)

\* 2 * t.sf(|t|, df) < alpha  <=>  t^2 > crit(alpha, df)^2; the critical
\* value decreases with df and is looked up at floor(df)
TailBelow(sq, dof, alpha) == ExceedsMilli(sq, CritSqMilli(alpha)[Clamp(Floor(dof))])

\* the lookup at floor(df) and the one at ceil(df) agree, so that the lookup
\* decides p < alpha for a fractional df as well
BracketDecides(sq, dof, alpha) ==
    TailBelow(sq, dof, alpha) = ExceedsMilli(sq, CritSqMilli(alpha)[Clamp(Ceil(dof))])

PNaN == [k |-> "nan"]
PZero == [k |-> "zero"]
PTail(sq, dof) == [k |-> "tail", sq |-> sq, df |-> dof]

\* p_value < alpha on floats: False for nan
PLess(p, alpha) ==
    CASE p.k = "nan" -> FALSE
      [] p.k = "zero" -> TRUE
      [] OTHER -> TailBelow(p.sq, p.df, alpha)

\* sample variance (ddof = 1) of a 0/1 vector: s(n-s) / (n(n-1)); nan for n = 1
Var(xs) == IntDiv(Sum(xs) * (Count(xs) - Sum(xs)), Count(xs) * (Count(xs) - 1))

TNaN == [k |-> "nan"]
TInf(s) == [k |-> "inf", sign |-> s]
TFin(s, sq) == [k |-> "fin", sign |-> s, sq |-> sq]
Neg(t) ==
    CASE t.k = "nan" -> t
      [] t.k = "inf" -> TInf(-t.sign)
      [] OTHER -> TFin(-t.sign, t.sq)

\* the difference taken in absolute value
WelchStatistic_abs(d, vn) ==
    IF vn = FZero THEN (IF d = FZero THEN TNaN ELSE TInf(1))
    ELSE TFin(Abs(FSign(d)), FDiv(FMul(d, d), vn))

\* d / sqrt(vn1 + vn2) for rationals d, vn1 + vn2 >= 0
WelchStatistic(d, vn) ==
    IF vn = FZero THEN (IF d = FZero THEN TNaN ELSE TInf(FSign(d)))
    ELSE TFin(FSign(d), FDiv(FMul(d, d), vn))

\* stats.ttest_ind(a, b, equal_var=False)
ttest_ind(a, b) ==
    IF Count(a) = 0 \/ Count(b) = 0 \/ IsNaN(Var(a)) \/ IsNaN(Var(b))
    THEN [statistic |-> TNaN, pvalue |-> PNaN]
    ELSE LET n1 == Count(a)
             n2 == Count(b)
             vn1 == FDiv(Var(a).c, <<n1, 1>>)
             vn2 == FDiv(Var(b).c, <<n2, 1>>)
             d == FSub(Mean(a).c, Mean(b).c)
             t == WelchStatistic(d, FAdd(vn1, vn2))
             dof == FDiv(FMul(FAdd(vn1, vn2), FAdd(vn1, vn2)),
                         FAdd(FDiv(FMul(vn1, vn1), <<n1 - 1, 1>>),
                              FDiv(FMul(vn2, vn2), <<n2 - 1, 1>>)))
         IN  [statistic |-> t,
              pvalue |-> CASE t.k = "nan" -> PNaN
                           [] t.k = "inf" -> PZero
                           [] OTHER -> PTail(t.sq, dof)]

(***************************** StatsUtils ***********************************)
\* data.groupby(group_col)[outcome_col].mean().reset_index(), renamed
calculate_conversion_rate(d) ==
    [i \in 1..Len(GroupKeys(d)) |->
        [group |-> GroupKeys(d)[i],
         conversion_rate |-> Mean(Select(d, GroupKeys(d)[i]))]]

\* (proportions * (1 - proportions) / trials) ** 0.5, kept as its square
StandardError(p, trials) ==
    IF IsNaN(p) THEN NaN
    ELSE [k |-> "sqrt", sq |-> FDiv(FMul(p.c, FSub(FOne, p.c)), <<trials, 1>>)]

\* standard_errors * critical_value: 0 * inf is nan
MarginOfError(se, z) ==
    CASE IsNaN(se) -> NaN
      [] z.k = "inf" -> IF se.sq = FZero THEN NaN ELSE Inf(1)
      [] OTHER -> IF se.sq = FZero THEN NoMargin ELSE [k |-> "pos", sq |-> se.sq, z |-> z]

\* proportions + side * margin_of_errors
Bound(p, margin, side) ==
    CASE IsNaN(p) \/ margin.k = "nan" -> NaN
      [] margin.k = "inf" -> Inf(side)
      [] margin.k = "none" -> p
      [] OTHER -> [k |-> "fin", c |-> p.c, m |-> [side |-> side, sq |-> margin.sq, z |-> margin.z]]

\* the sum taken over the whole column instead of per group
Successes_ungrouped(d, g) == Sum([i \in 1..Len(d) |-> d[i].converted])

\* data.groupby(group_col)[outcome_col].sum(), at key g
Successes(d, g) == Sum(Select(d, g))

\* .sum() where .count() was meant
Trials_sum(d, g) == Sum(Select(d, g))

\* data.groupby(group_col)[outcome_col].count(), at key g
Trials(d, g) == Count(Select(d, g))

calculate_confidence_interval(d, confidence) ==
    LET keys == GroupKeys(d)
        index == {keys[i] : i \in 1..Len(keys)}
        successes == [g \in index |-> Successes(d, g)]
        trials == [g \in index |-> Trials(d, g)]
        proportions == [g \in index |-> IntDiv(successes[g], trials[g])]
        standard_errors == [g \in index |-> StandardError(proportions[g], trials[g])]
        critical_value == norm_ppf(UpperTail(confidence))
        margin_of_errors == [g \in index |-> MarginOfError(standard_errors[g], critical_value)]
    IN  [i \in 1..Len(keys) |->
            [group |-> keys[i],
             sample_size |-> trials[keys[i]],
             successes |-> successes[keys[i]],
             conversion_rate |-> proportions[keys[i]],
             lower_bound |-> Bound(proportions[keys[i]], margin_of_errors[keys[i]], -1),
             upper_bound |-> Bound(proportions[keys[i]], margin_of_errors[keys[i]], 1)]]

perform_hypothesis_test(d, alpha) ==
    LET group_a == Select(d, "ad")
        group_b == Select(d, "psa")
        test == ttest_ind(group_a, group_b)
    IN  [t_statistic |-> test.statistic,
         p_value |-> test.pvalue,
         is_significant |-> PLess(test.pvalue, alpha)]

\* the mask applied to the caller's frame: data = data[data[group_col] == "ad"]
frame_after_call_masked(d) == SelectSeq(d, LAMBDA r : r.group = "ad")

\* none of the three methods assigns to its argument: the masks, groupby
\* objects and result frames are new objects, and the inplace rename /
\* reset_index act on the result frame
frame_after_call(d) == d

(***************************** state ****************************************)
\* data   : ABAnalyzer.data, None until loaded
\* ret    : what the last direct call of a StatsUtils method returned
\* raised : the exception the last call raised, if any
\* report : what analyze_ab_test printed
\* plots  : the files written under <output_dir>/plots
\* first  : history, the first return value of each StatsUtils method
NoData == [k |-> "None"]
Frame(rows) == [k |-> "DataFrame", rows |-> rows]
\* a frame read from a csv that has no "converted" column
FrameWithoutOutcome == [k |-> "DataFrame without converted"]
NoReturn == [op |-> "none"]
NoError == "none"
NoReport == [k |-> "none"]
NoHistory == [cr |-> NoReturn, ci |-> NoReturn, ht |-> NoReturn]

ReturnCR(d) ==
    [op |-> "calculate_conversion_rate", rows |-> calculate_conversion_rate(d)]
ReturnCI(d, confidence) ==
    [op |-> "calculate_confidence_interval", confidence |-> confidence,
     rows |-> calculate_confidence_interval(d, confidence)]
ReturnHT(d, alpha) ==
    [op |-> "perform_hypothesis_test", alpha |-> alpha,
     result |-> perform_hypothesis_test(d, alpha)]

Remember(h, r) == IF h.op = "none" THEN r ELSE h

Init ==
    /\ data = NoData
    /\ ret = NoReturn
    /\ raised = NoError
    /\ report = NoReport
    /\ plots = {}
    /\ first = NoHistory
    /\ df = NoData
    /\ result = NoReturn
    /\ printed = <<>>

\* ABAnalyzer(data_dir, output_dir): a fresh analyzer, as each test's setUp makes
NewABAnalyzer ==
    /\ data' = NoData
    /\ ret' = NoReturn
    /\ raised' = NoError
    /\ report' = NoReport
    /\ plots' = {}
    /\ first' = NoHistory
    /\ UNCHANGED mainvars

\* the outcomes of loader.load_data() followed by the cast of "converted":
\* FileNotFoundError when the csv is missing and ValueError when it does not
\* parse, both before self.data is assigned; KeyError from the cast when the
\* csv has no "converted" column, after self.data was assigned; otherwise
\* the frame with "converted" as bool
LoadOutcomes(files) ==
    {[data |-> NoData, raised |-> "FileNotFoundError"],
     [data |-> NoData, raised |-> "ValueError: Error parsing the csv file"],
     [data |-> FrameWithoutOutcome, raised |-> "KeyError"]}
    \cup {[data |-> Frame(d), raised |-> NoError] : d \in files}

\* An analyzer loads once; another load is a load by a fresh analyzer.
load_and_preprocess_data(files) ==
    /\ data = NoData
    /\ \E o \in LoadOutcomes(files) :
          /\ data' = o.data
          /\ raised' = o.raised
    /\ UNCHANGED <<ret, report, plots, first, mainvars>>

\* stats.calculate_conversion_rate(analyzer.data, "test group", "converted")
CallConversionRate(track) ==
    IF data.k # "DataFrame"
    THEN /\ raised' = IF data = NoData THEN "AttributeError" ELSE "KeyError"
         /\ ret' = NoReturn
         /\ UNCHANGED <<data, report, plots, first, mainvars>>
    ELSE /\ ret' = ReturnCR(data.rows)
         /\ data' = Frame(frame_after_call(data.rows))
         /\ raised' = NoError
         /\ first' = IF track THEN [first EXCEPT !.cr = Remember(@, ret')] ELSE first
         /\ UNCHANGED <<report, plots, mainvars>>

\* stats.calculate_confidence_interval(analyzer.data, "test group", "converted", confidence)
CallConfidenceInterval(confidence, track) ==
    IF data.k # "DataFrame"
    THEN /\ raised' = IF data = NoData THEN "AttributeError" ELSE "KeyError"
         /\ ret' = NoReturn
         /\ UNCHANGED <<data, report, plots, first, mainvars>>
    ELSE /\ ret' = ReturnCI(data.rows, confidence)
         /\ data' = Frame(frame_after_call(data.rows))
         /\ raised' = NoError
         /\ first' = IF track THEN [first EXCEPT !.ci = Remember(@, ret')] ELSE first
         /\ UNCHANGED <<report, plots, mainvars>>

\* stats.perform_hypothesis_test(analyzer.data, "test group", "converted", alpha)
CallHypothesisTest(alpha, track) ==
    IF data.k # "DataFrame"
    THEN /\ raised' = IF data = NoData THEN "TypeError" ELSE "KeyError"
         /\ ret' = NoReturn
         /\ UNCHANGED <<data, report, plots, first, mainvars>>
    ELSE /\ ret' = ReturnHT(data.rows, alpha)
         /\ data' = Frame(frame_after_call(data.rows))
         /\ raised' = NoError
         /\ first' = IF track THEN [first EXCEPT !.ht = Remember(@, ret')] ELSE first
         /\ UNCHANGED <<report, plots, mainvars>>

AnalysisPlots ==
    {"conversion_rates.png", "confidence_intervals.png", "feature_distributions.png"}

\* the three computations of analyze_ab_test, in order, on frame d
Analysis(d) ==
    LET d1 == frame_after_call(d)
        d2 == frame_after_call(d1)
    IN  [k |-> "printed",
         conversion_rates |-> ReturnCR(d),
         confidence_intervals |-> ReturnCI(d1, DefaultConfidence),
         test |-> ReturnHT(d2, DefaultAlpha),
         frame |-> frame_after_call(d2)]

\* without the check of self.data: the first groupby fails on None
analyze_ab_test_unchecked(track) ==
    /\ data = NoData
    /\ raised' = "AttributeError"
    /\ UNCHANGED <<data, ret, report, plots, first, mainvars>>

analyze_ab_test(track) ==
    /\ IF data = NoData
       THEN /\ raised' = "ValueError"
            /\ UNCHANGED <<data, ret, report, plots, first, mainvars>>
       ELSE IF data = FrameWithoutOutcome
       THEN /\ raised' = "KeyError"
            /\ UNCHANGED <<data, ret, report, plots, first, mainvars>>
       ELSE /\ report' = [Analysis(data.rows) EXCEPT !.frame = NoReturn]
            /\ data' = Frame(Analysis(data.rows).frame)
            /\ plots' = plots \cup AnalysisPlots
            /\ raised' = NoError
            /\ first' = IF track
                        THEN [cr |-> Remember(first.cr, report'.conversion_rates),
                              ci |-> Remember(first.ci, report'.confidence_intervals),
                              ht |-> Remember(first.ht, report'.test)]
                        ELSE first
            /\ UNCHANGED <<ret, mainvars>>

\* run_analysis: load_and_preprocess_data(), then analyze_ab_test()
run_analysis(files, track) ==
    /\ data = NoData
    /\ \/ \E o \in LoadOutcomes({}) :
            /\ data' = o.data
            /\ raised' = o.raised
            /\ UNCHANGED <<ret, report, plots, first, mainvars>>
       \/ \E d \in files :
            /\ report' = [Analysis(d) EXCEPT !.frame = NoReturn]
            /\ data' = Frame(Analysis(d).frame)
            /\ plots' = plots \cup AnalysisPlots
            /\ raised' = NoError
            /\ first' = IF track
                        THEN [cr |-> Remember(first.cr, report'.conversion_rates),
                              ci |-> Remember(first.ci, report'.confidence_intervals),
                              ht |-> Remember(first.ht, report'.test)]
                        ELSE first
            /\ UNCHANGED <<ret, mainvars>>

\* the StatsUtils methods called on the data of an analyzer, any table
Next ==
    \/ NewABAnalyzer
    \/ load_and_preprocess_data(Tables)
    \/ CallConversionRate(FALSE)
    \/ \E c \in Confidences : CallConfidenceInterval(c, FALSE)
    \/ \E a \in Alphas : CallHypothesisTest(a, FALSE)

Spec == Init /\ [][Next]_vars

\* the analyzer's own methods as well, on a RecordSet (no null group), with
\* the history kept
TrackedConfidences == {DefaultConfidence, BelowOne(1)}
TrackedAlphas == {DefaultAlpha}

NextTracked ==
    \/ NewABAnalyzer
    \/ load_and_preprocess_data(RecordSets)
    \/ CallConversionRate(TRUE)
    \/ \E c \in TrackedConfidences : CallConfidenceInterval(c, TRUE)
    \/ \E a \in TrackedAlphas : CallHypothesisTest(a, TRUE)
    \/ analyze_ab_test(TRUE)
    \/ run_analysis(RecordSets, TRUE)

SpecTracked == Init /\ [][NextTracked]_vars

(***************************** ABTestAnalyzer (main.py) *********************)
\* metric -> the column it is computed from
MetricColumns ==
    [conversion_rate |-> "purchase", click_through_rate |-> "website_clicks",
     reach |-> "reach", impressions |-> "impressions", spend |-> "spend"]
MetricNames == DOMAIN MetricColumns
Columns == {MetricColumns[m] : m \in MetricNames}

\* a cell of a csv row: a number, or nothing
CellValues == {1, 2}
Missing == -1

\* one day of a campaign: the amount spent and the counts of that day
Day(s, n) ==
    [spend |-> s, impressions |-> n, reach |-> n, website_clicks |-> n, purchase |-> n]
DayRows == {Day(s, n) : s \in CellValues, n \in CellValues} \cup {Day(Missing, 1)}
CsvFiles == SeqsUpTo(DayRows, MaxDays)

\* control_df["group"] = "control"; pd.concat([control_df, test_df])
WithGroup(rows, g) ==
    [i \in 1..Len(rows) |-> [group |-> g] @@ rows[i]]
Concat(control, test) == WithGroup(control, "control") \o WithGroup(test, "test")

HasNull(r) == \E c \in Columns : r[c] = Missing
dropna(rows) == SelectSeq(rows, LAMBDA r : ~HasNull(r))

\* rows equal in every column (the date included) are kept once
RECURSIVE drop_duplicates(_)
drop_duplicates(rows) ==
    IF rows = <<>> THEN <<>>
    ELSE LET kept == drop_duplicates(SubSeq(rows, 1, Len(rows) - 1))
             last == rows[Len(rows)]
         IN  IF \E i \in 1..Len(kept) : kept[i] = last THEN kept ELSE Append(kept, last)

load_and_preprocess(control, test) == drop_duplicates(dropna(Concat(control, test)))

\* df.groupby("group"): the groups that have a row, sorted
MainGroups == <<"control", "test">>
GroupsOf(rows) ==
    SelectSeq(MainGroups, LAMBDA g : \E i \in 1..Len(rows) : rows[i].group = g)
GroupRows(rows, g) == SelectSeq(rows, LAMBDA r : r.group = g)

RECURSIVE ColumnSum(_, _)
ColumnSum(x, column) ==
    IF x = <<>> THEN 0 ELSE Head(x)[column] + ColumnSum(Tail(x), column)

\* np.sum(x[column]) / len(x) if metric != "spend" else np.mean(x[column])
MetricValue(x, metric) ==
    IF metric # "spend"
    THEN Frac(ColumnSum(x, MetricColumns[metric]), Len(x))
    ELSE FDiv(<<ColumnSum(x, MetricColumns[metric]), 1>>, <<Len(x), 1>>)

\* the metrics of every row on its own, not aggregated by group
calculate_metrics_per_row(rows) ==
    [i \in 1..Len(rows) |->
        [group |-> rows[i].group]
        @@ [m \in MetricNames |-> MetricValue(<<rows[i]>>, m)]]

\* _calculate_metrics: one row per group of df, a column per metric
calculate_metrics(rows) ==
    [i \in 1..Len(GroupsOf(rows)) |->
        [group |-> GroupsOf(rows)[i]]
        @@ [m \in MetricNames |-> MetricValue(GroupRows(rows, GroupsOf(rows)[i]), m)]]

\* calculated_metrics.loc[calculated_metrics["group"] == g, metric]
MetricSample(calculated_metrics, g, metric) ==
    LET sel == SelectSeq(calculated_metrics, LAMBDA r : r.group = g)
    IN  [i \in 1..Len(sel) |-> sel[i][metric]]

RECURSIVE ValueSum(_)
ValueSum(xs) == IF xs = <<>> THEN FZero ELSE FAdd(Head(xs), ValueSum(Tail(xs)))
ValueMean(xs) ==
    IF xs = <<>> THEN NaN ELSE Fin(FDiv(ValueSum(xs), <<Len(xs), 1>>))
\* sample variance (ddof = 1) of a vector of numbers: nan for n <= 1
ValueVar(xs) ==
    IF Len(xs) <= 1 THEN NaN
    ELSE LET m == ValueMean(xs).c
             sq == [i \in 1..Len(xs) |-> FMul(FSub(xs[i], m), FSub(xs[i], m))]
         IN  Fin(FDiv(ValueSum(sq), <<Len(xs) - 1, 1>>))

\* stats.ttest_ind(control_values, test_values, equal_var=False) on numbers
ttest_ind_values(a, b) ==
    IF IsNaN(ValueVar(a)) \/ IsNaN(ValueVar(b))
    THEN [statistic |-> TNaN, pvalue |-> PNaN]
    ELSE LET n1 == Len(a)
             n2 == Len(b)
             vn1 == FDiv(ValueVar(a).c, <<n1, 1>>)
             vn2 == FDiv(ValueVar(b).c, <<n2, 1>>)
             d == FSub(ValueMean(a).c, ValueMean(b).c)
             t == WelchStatistic(d, FAdd(vn1, vn2))
             dof == FDiv(FMul(FAdd(vn1, vn2), FAdd(vn1, vn2)),
                         FAdd(FDiv(FMul(vn1, vn1), <<n1 - 1, 1>>),
                              FDiv(FMul(vn2, vn2), <<n2 - 1, 1>>)))
         IN  [statistic |-> t,
              pvalue |-> CASE t.k = "nan" -> PNaN
                           [] t.k = "inf" -> PZero
                           [] OTHER -> PTail(t.sq, dof)]

\* self.alpha = 0.05, in thousandths
self_alpha == 50

\* what perform_statistical_analysis returns for a metric of the table
StatisticalAnalysis(metric, calculated_metrics) ==
    LET control_values == MetricSample(calculated_metrics, "control", metric)
        test_values == MetricSample(calculated_metrics, "test", metric)
        t == ttest_ind_values(control_values, test_values)
    IN  [op |-> "perform_statistical_analysis", metric |-> metric,
         t_statistic |-> t.statistic, p_value |-> t.pvalue,
         is_significant |-> PLess(t.pvalue, self_alpha)]

\* the line report_results prints for a metric
ReportLine(metric, calculated_metrics) ==
    [metric |-> metric,
     significant |-> IF StatisticalAnalysis(metric, calculated_metrics).is_significant
                     THEN "Yes" ELSE "No"]

\* ABTestAnalyzer(data_dir): both csv files are read, joined and cleaned, or
\* FileNotFoundError when one is missing.  Some row is left after cleaning.
ABTestAnalyzer(files) ==
    /\ df = NoData
    /\ \/ /\ raised' = "FileNotFoundError"
          /\ UNCHANGED df
       \/ \E control \in files, test \in files :
            /\ load_and_preprocess(control, test) # <<>>
            /\ df' = Frame(load_and_preprocess(control, test))
            /\ raised' = NoError
    /\ UNCHANGED <<data, ret, report, plots, first, result, printed>>

\* perform_statistical_analysis(metric, self._calculate_metrics())
perform_statistical_analysis(metric) ==
    /\ df # NoData
    /\ IF metric \notin MetricNames
       THEN /\ raised' = "ValueError"
            /\ result' = NoReturn
       ELSE /\ result' = StatisticalAnalysis(metric, calculate_metrics(df.rows))
            /\ raised' = NoError
    /\ UNCHANGED <<data, ret, report, plots, first, df, printed>>

\* the metrics main() analyzes, and a list that names no metric of the table
metrics_to_analyze ==
    <<"spend", "reach", "impressions", "click_through_rate", "conversion_rate">>
MetricLists == {metrics_to_analyze, <<"conversion_rate", "revenue">>}

\* report_results(metrics): a line per metric, up to the first metric that is
\* not a column of the table, where ValueError ends the report
report_results(metrics) ==
    /\ df # NoData
    /\ LET unknown == {i \in 1..Len(metrics) : metrics[i] \notin MetricNames}
           done == IF unknown = {} THEN Len(metrics)
                   ELSE (CHOOSE i \in unknown : \A j \in unknown : i <= j) - 1
       IN  /\ printed' = [i \in 1..done |->
                             ReportLine(metrics[i], calculate_metrics(df.rows))]
           /\ raised' = IF unknown = {} THEN NoError ELSE "ValueError"
    /\ UNCHANGED <<data, ret, report, plots, first, df, result>>

NextMain ==
    \/ ABTestAnalyzer(CsvFiles)
    \/ \E m \in MetricNames \cup {"revenue"} : perform_statistical_analysis(m)
    \/ \E ms \in MetricLists : report_results(ms)

SpecMain == Init /\ [][NextMain]_vars

(***************************** properties ***********************************)
IsCR == ret.op = "calculate_conversion_rate"
IsCI == ret.op = "calculate_confidence_interval"
IsHT == ret.op = "perform_hypothesis_test"
OnRecordSet == data.k = "DataFrame" /\ IsRecordSet(data.rows)

RECURSIVE TotalSampleSize(_)
TotalSampleSize(rows) ==
    IF Len(rows) = 0 THEN 0
    ELSE rows[Len(rows)].sample_size + TotalSampleSize(SubSeq(rows, 1, Len(rows) - 1))

\* C1: on a RecordSet (no null group), the sample_size column returned by
\* calculate_confidence_interval sums to the number of records.
C1_SampleSizesSumToTotal ==
    (OnRecordSet /\ IsCI) => TotalSampleSize(ret.rows) = Len(data.rows)

C1_Witness ==
    /\ OnRecordSet /\ IsCI
    /\ Len(ret.rows) = 2
    /\ Len(data.rows) >= 3

\* a float that is a plain rational in [0, 1]
InUnitInterval(x) ==
    /\ x.k = "fin" /\ x.m = NoMargin
    /\ FLeq(FZero, x.c) /\ FLeq(x.c, FOne)

\* C2: on a RecordSet, every row of calculate_conversion_rate has a rate in
\* [0, 1], and every row of calculate_confidence_interval has
\* successes <= sample_size and conversion_rate = successes / sample_size
\* in [0, 1].
C2_RatesWithinUnitInterval ==
    /\ (OnRecordSet /\ IsCR) =>
          \A i \in 1..Len(ret.rows) : InUnitInterval(ret.rows[i].conversion_rate)
    /\ (OnRecordSet /\ IsCI) =>
          \A i \in 1..Len(ret.rows) :
             /\ ret.rows[i].successes <= ret.rows[i].sample_size
             /\ ret.rows[i].conversion_rate
                   = IntDiv(ret.rows[i].successes, ret.rows[i].sample_size)
             /\ InUnitInterval(ret.rows[i].conversion_rate)

C2_Witness ==
    /\ OnRecordSet /\ IsCI
    /\ \E i \in 1..Len(ret.rows) :
          /\ 0 < ret.rows[i].successes
          /\ ret.rows[i].successes < ret.rows[i].sample_size

PresentGroups(d) == {d[i].group : i \in 1..Len(d)}

\* C10: on a RecordSet, calculate_conversion_rate and
\* calculate_confidence_interval return exactly one row per group value that
\* occurs in the records, and no row for a value that does not occur.
C10_OneRowPerPresentGroup ==
    (OnRecordSet /\ (IsCR \/ IsCI)) =>
        /\ Len(ret.rows) = Cardinality(PresentGroups(data.rows))
        /\ \A g \in PresentGroups(data.rows) :
              Cardinality({i \in 1..Len(ret.rows) : ret.rows[i].group = g}) = 1
        /\ \A i \in 1..Len(ret.rows) : ret.rows[i].group \in PresentGroups(data.rows)

C10_Witness ==
    /\ OnRecordSet /\ IsCR
    /\ Len(ret.rows) = 2
    /\ PresentGroups(data.rows) = Groups

GroupSize(g) == Count(Select(data.rows, g))

\* C3: when one of the two compared groups has exactly one record, no
\* TestResult is returned by perform_hypothesis_test (it fails with
\* InsufficientSampleError), while calculate_conversion_rate and
\* calculate_confidence_interval return without raising.
C3_SingleRecordGroupRejected ==
    (OnRecordSet /\ (\E g \in Groups : GroupSize(g) = 1)
                 /\ (\A g \in Groups : GroupSize(g) >= 1)) =>
        /\ ~IsHT
        /\ (IsCR \/ IsCI) => raised = NoError

\* C4: when one of the two compared labels has no record, no TestResult is
\* returned by perform_hypothesis_test (it fails with UnknownGroupError).
C4_AbsentLabelRejected ==
    (OnRecordSet /\ \E g \in Groups : GroupSize(g) = 0) => ~IsHT

AllSame(xs) == Sum(xs) = 0 \/ Sum(xs) = Count(xs)

\* both groups have n >= 2, zero variance and the same mean
Degenerate(d) ==
    /\ \A g \in Groups : Count(Select(d, g)) >= 2 /\ AllSame(Select(d, g))
    /\ Mean(Select(d, "ad")) = Mean(Select(d, "psa"))

\* C5: when both groups have zero variance and identical means,
\* perform_hypothesis_test returns no TestResult (it fails with
\* DegenerateInputError); in particular none with a NaN statistic or p_value.
C5_DegenerateInputRejected ==
    (OnRecordSet /\ Degenerate(data.rows)) => ~IsHT

SwapGroups(d) ==
    [i \in 1..Len(d) |->
        [d[i] EXCEPT !.group = IF @ = "ad" THEN "psa" ELSE IF @ = "psa" THEN "ad" ELSE @]]

\* C7: with at least 2 records in each group, the test on the table with
\* the two labels exchanged has the negated statistic and the same p_value
\* and is_significant.
C7_SwapNegatesStatistic ==
    (OnRecordSet /\ IsHT /\ \A g \in Groups : GroupSize(g) >= 2) =>
        LET swapped == perform_hypothesis_test(SwapGroups(data.rows), ret.alpha)
        IN  /\ swapped.t_statistic = Neg(ret.result.t_statistic)
            /\ swapped.p_value = ret.result.p_value
            /\ swapped.is_significant = ret.result.is_significant

C7_Witness ==
    /\ OnRecordSet /\ IsHT
    /\ \A g \in Groups : GroupSize(g) >= 2
    /\ ret.result.t_statistic.k = "fin"
    /\ ret.result.t_statistic.sign = 1

\* C8: for a group of all failures or all successes, and every confidence
\* level in (0, 1), lower_bound = upper_bound = conversion_rate.
C8_ZeroWidthAtExtremes ==
    (OnRecordSet /\ IsCI) =>
        \A i \in 1..Len(ret.rows) :
            (ret.rows[i].successes = 0 \/ ret.rows[i].successes = ret.rows[i].sample_size) =>
                /\ ret.rows[i].lower_bound = ret.rows[i].conversion_rate
                /\ ret.rows[i].upper_bound = ret.rows[i].conversion_rate

\* a p-value that is a probability: zero or a Student-t tail, not nan
IsProbability(p) == p.k \in {"zero", "tail"}

\* C9: every returned TestResult has a boolean is_significant that is true
\* exactly when p_value < alpha, and a p_value in [0, 1].
C9_SignificanceThresholdsPValue ==
    (OnRecordSet /\ IsHT) =>
        /\ ret.result.is_significant \in BOOLEAN
        /\ ret.result.is_significant <=> PLess(ret.result.p_value, ret.alpha)
        /\ IsProbability(ret.result.p_value)

\* every Student-t tail that is compared with alpha is decided by the table
TableDecides ==
    (IsHT /\ ret.result.p_value.k = "tail") =>
        BracketDecides(ret.result.p_value.sq, ret.result.p_value.df, ret.alpha)

\* every recorded result equals the first result of the same call
AgreesWithFirst ==
    /\ IsCR => ret = first.cr
    /\ (IsCI /\ first.ci.op # "none" /\ first.ci.confidence = ret.confidence) => ret = first.ci
    /\ (IsHT /\ first.ht.op # "none" /\ first.ht.alpha = ret.alpha) => ret = first.ht
    /\ report # NoReport =>
          /\ report.conversion_rates = first.cr
          /\ first.ci.confidence = DefaultConfidence => report.confidence_intervals = first.ci
          /\ first.ht.alpha = DefaultAlpha => report.test = first.ht

SomethingComputed ==
    \/ ret # NoReturn
    \/ report # NoReport
    \/ plots # {}
    \/ first # NoHistory

MetricsTable == calculate_metrics(df.rows)
TableRows(g) == Len(SelectSeq(MetricsTable, LAMBDA r : r.group = g))
Analyzed == result.op = "perform_statistical_analysis"
Undefined ==
    /\ result.t_statistic = TNaN
    /\ result.p_value = PNaN
    /\ result.is_significant = FALSE
NoneReportedSignificant == \A i \in 1..Len(printed) : printed[i].significant = "No"

\* C12 as stated: the aggregated table has exactly one control row and one
\* test row for every input, every returned p_value is undefined and
\* is_significant False, and report_results reports no metric as significant.
C12_OneRowPerGroupNeverSignificant ==
    /\ Analyzed =>
          /\ TableRows("control") = 1 /\ TableRows("test") = 1
          /\ Undefined
    /\ NoneReportedSignificant

\* C12, amended: the aggregated table has one row for each group that has a
\* row in df and none for a group that has no row left after cleaning, so
\* each sample of the t-test has at most one value; every returned p_value
\* is undefined and is_significant False, and report_results reports no
\* metric as significant.
C12_NeverSignificant ==
    df # NoData =>
        /\ \A g \in {"control", "test"} :
              TableRows(g) = IF GroupRows(df.rows, g) = <<>> THEN 0 ELSE 1
        /\ Analyzed =>
              /\ Len(MetricSample(MetricsTable, "control", result.metric)) <= 1
              /\ Len(MetricSample(MetricsTable, "test", result.metric)) <= 1
              /\ Undefined
        /\ NoneReportedSignificant

\* both groups have two days that differ in every metric, a metric was
\* analyzed and the five metrics of main() were reported
C12_Witness ==
    /\ df # NoData
    /\ \A g \in {"control", "test"} :
          /\ Len(GroupRows(df.rows, g)) = 2
          /\ \A c \in Columns : GroupRows(df.rows, g)[1][c] # GroupRows(df.rows, g)[2][c]
    /\ Analyzed
    /\ Len(printed) = Len(metrics_to_analyze)

====
